---- MODULE Spec2Model ----
(***************************************************************************)
(* DocHumanize: the threaded document pipeline of main.py                  *)
(* (process_paragraph_threaded, process_docx_threaded) and the rewrite     *)
(* call of ollama_humanize.py (humanize_with_ollama).                      *)
(*                                                                         *)
(* Texts are sequences of characters, " " being the only whitespace.       *)
(* Python's None is the empty tuple <<>>, a present value v is <<v>>.      *)
(* Paragraph indices are the 0-based indices of enumerate(doc.paragraphs). *)
(***************************************************************************)
EXTENDS Integers, Sequences, FiniteSets, TLC

\* ------------------------------------------------------------------ bounds
NumParas == 3
NumCells == 1
MaxWorkers == 3
MaxTableCells == 3
MaxBatchRuns == 2
MaxLines == 3

ParaIdx == 0 .. (NumParas - 1)
CellIdx == 0 .. (NumCells - 1)

None == <<>>
Some(v) == <<v>>

\* ------------------------------------------------------------ text helpers
RECURSIVE LStrip(_)
LStrip(t) == IF t # <<>> /\ Head(t) = " " THEN LStrip(Tail(t)) ELSE t

RECURSIVE RStrip(_)
RStrip(t) ==
    IF t # <<>> /\ t[Len(t)] = " " THEN RStrip(SubSeq(t, 1, Len(t) - 1)) ELSE t

\* str.strip()
Strip(t) == RStrip(LStrip(t))

\* ------------------------------------------------------- document contents
\* A run style stands for (bold, italic, underline, font name, size, color);
\* a paragraph format for (alignment, indents, spacing, line spacing).
DefaultRunFmt == "plain"
DefaultParaFmt == "left"

Run(text, fmt) == [text |-> text, fmt |-> fmt]
\* links is the text of the paragraph's hyperlinks, which paragraph.text
\* includes (python-docx 1.0 and later) and paragraph.runs does not
LinkPara(runs, pfmt, links) == [runs |-> runs, pfmt |-> pfmt, links |-> links]
Para(runs, pfmt) == LinkPara(runs, pfmt, <<>>)

EmptyPara == Para(<<>>, DefaultParaFmt)
BlankPara == Para(<<Run(<<" ">>, "bold")>>, "center")
OneRunPara == Para(<<Run(<<"a">>, "bold")>>, "center")
TwoRunPara == Para(<<Run(<<"a", " ">>, "plain"), Run(<<"b">>, "italic")>>, "justify")

ParaPool == {EmptyPara, BlankPara, OneRunPara, TwoRunPara}
CellPool == {BlankPara, OneRunPara}

RECURSIVE ConcatRuns(_)
ConcatRuns(runs) ==
    IF runs = <<>> THEN <<>> ELSE Head(runs).text \o ConcatRuns(Tail(runs))

\* paragraph.text (getter)
ParaText(p) == ConcatRuns(p.runs) \o p.links

\* paragraph.text = t (setter): the content is replaced by one unstyled run,
\* the paragraph properties stay
SetParaText(p, t) == [p EXCEPT !.runs = <<Run(t, DefaultRunFmt)>>, !.links = <<>>]

\* -------------------------------------------------------------- the backend
\* What the HTTP boundary does for one call: the transport outcome, the
\* status code, whether the body parses as JSON, whether it carries the
\* expected field (message.content or response), and the body's text.
Response(transport, status, json, field, body) ==
    [transport |-> transport, status |-> status, json |-> json,
     field |-> field, body |-> body]

BackendOk == Response("ok", 200, TRUE, TRUE, "content")
BackendNoField == Response("ok", 200, TRUE, FALSE, "empty object")
Backend500 == Response("ok", 500, FALSE, FALSE, "internal error")
BackendRefused == Response("refused", 0, FALSE, FALSE, "")
BackendTimeout == Response("timeout", 0, FALSE, FALSE, "")

BackendPool == {BackendOk, BackendNoField, Backend500}

\* The content a deterministic (mocked) backend answers for an input text.
MockContent(text) == <<" ", "h">> \o Strip(text) \o <<" ">>

\* an error reason: the message and, for a backend error, the status code
\* and the response body it quotes
Reason(msg, status, detail) == [msg |-> msg, status |-> status, detail |-> detail]

Returned(t) == [raised |-> FALSE, value |-> t, error |-> None]
Raised(e) == [raised |-> TRUE, value |-> <<>>, error |-> Some(e)]

\* (mutant) the status code is not looked at
humanize_with_ollama_no_status(text, b) ==
    IF b.transport = "refused"
    THEN Raised(Reason("Could not connect to Ollama", 0, ""))
    ELSE IF b.transport = "timeout"
    THEN Raised(Reason("Request to Ollama timed out", 0, ""))
    ELSE Returned(Strip(IF b.field THEN MockContent(text) ELSE <<>>))

\* (mutant) every 2xx status is taken as a success
humanize_with_ollama_any_2xx(text, b) ==
    IF b.transport = "refused"
    THEN Raised(Reason("Could not connect to Ollama", 0, ""))
    ELSE IF b.transport = "timeout"
    THEN Raised(Reason("Request to Ollama timed out", 0, ""))
    ELSE IF b.status >= 200 /\ b.status < 300
    THEN IF b.json
         THEN Returned(Strip(IF b.field THEN MockContent(text) ELSE <<>>))
         ELSE Raised(Reason("Error calling Ollama: JSONDecodeError", 0, ""))
    ELSE Raised(Reason("Error calling Ollama: Ollama API returned status code",
                       b.status, b.body))

\* humanize_with_ollama(text, ...) against a backend behaving as b
humanize_with_ollama(text, b) ==
    IF b.transport = "refused"
    THEN Raised(Reason("Could not connect to Ollama", 0, ""))
    ELSE IF b.transport = "timeout"
    THEN Raised(Reason("Request to Ollama timed out", 0, ""))
    ELSE IF b.status = 200
    THEN IF b.json
         THEN Returned(Strip(IF b.field THEN MockContent(text) ELSE <<>>))
         ELSE Raised(Reason("Error calling Ollama: JSONDecodeError", 0, ""))
    ELSE Raised(Reason("Error calling Ollama: Ollama API returned status code",
                       b.status, b.body))

\* ------------------------------------------------------------- the worker
\* the formatting snapshot of process_paragraph_threaded
RECURSIVE RunFormats(_)
RunFormats(runs) ==
    IF runs = <<>> THEN <<>> ELSE <<Head(runs).fmt>> \o RunFormats(Tail(runs))

CaptureFormatting(p) ==
    [run_formats |-> RunFormats(p.runs), paragraph_format |-> p.pfmt]

Outcome(success, text, fd, error) ==
    [success |-> success, humanized_text |-> text,
     formatting_data |-> fd, error |-> error]

\* reading the attributes of a run raises (a run format marked "broken"
\* stands for a run whose font or color element the library cannot read)
CaptureRaises(p) == \E n \in DOMAIN p.runs : p.runs[n].fmt = "broken"

\* (mutant) an exception while capturing is swallowed, the rewritten text kept
process_paragraph_threaded_capture_swallowed(index, original_text, paragraph, b, preserve) ==
    LET r == humanize_with_ollama(original_text, b)
    IN  IF r.raised
        THEN <<index, Outcome(FALSE, None, None, r.error)>>
        ELSE IF preserve /\ CaptureRaises(paragraph)
        THEN <<index, Outcome(TRUE, Some(r.value), None, None)>>
        ELSE <<index, Outcome(TRUE, Some(r.value),
                              IF preserve THEN Some(CaptureFormatting(paragraph))
                              ELSE None,
                              None)>>

\* (mutant) the except clause loses the index of its task
process_paragraph_threaded_lost_index(index, original_text, paragraph, b, preserve) ==
    LET r == humanize_with_ollama(original_text, b)
    IN  IF r.raised
        THEN <<0, Outcome(FALSE, None, None, r.error)>>
        ELSE <<index, Outcome(TRUE, Some(r.value),
                              IF preserve THEN Some(CaptureFormatting(paragraph))
                              ELSE None,
                              None)>>

\* (mutant) the formatting is captured whatever preserve_formatting says
process_paragraph_threaded_always_captures(index, original_text, paragraph, b, preserve) ==
    LET r == humanize_with_ollama(original_text, b)
    IN  IF r.raised
        THEN <<index, Outcome(FALSE, None, None, r.error)>>
        ELSE <<index, Outcome(TRUE, Some(r.value),
                              Some(CaptureFormatting(paragraph)), None)>>

\* process_paragraph_threaded((index, paragraph, ..., preserve_formatting)):
\* the tuple it returns, index first. original_text was read when the worker
\* started, the formatting is read from the paragraph after the call.
process_paragraph_threaded(index, original_text, paragraph, b, preserve) ==
    LET r == humanize_with_ollama(original_text, b)
    IN  IF r.raised
        THEN <<index, Outcome(FALSE, None, None, r.error)>>
        ELSE IF preserve /\ CaptureRaises(paragraph)
        THEN <<index, Outcome(FALSE, None, None, Some(Reason("AttributeError", 0, "")))>>
        ELSE <<index, Outcome(TRUE, Some(r.value),
                              IF preserve THEN Some(CaptureFormatting(paragraph))
                              ELSE None,
                              None)>>

\* ------------------------------------------------------------ the applier
\* apply_run_format(run, fmt) of docx_processor
apply_run_format(run, fmt) == [run EXCEPT !.fmt = fmt]

RECURSIVE ClearRuns(_)
ClearRuns(runs) ==
    IF runs = <<>> THEN <<>>
    ELSE <<[Head(runs) EXCEPT !.text = <<>>]>> \o ClearRuns(Tail(runs))

\* (mutant) the text is set through paragraph.text and only the paragraph
\* format is restored
ApplyOutcomeTextOnly(p, o, preserve) ==
    LET text == o.humanized_text[1]
    IN  IF preserve /\ o.formatting_data # None
        THEN [SetParaText(p, text) EXCEPT !.pfmt = o.formatting_data[1].paragraph_format]
        ELSE SetParaText(p, text)

\* the body of the apply loop for a Success outcome
ApplyOutcome(p, o, preserve) ==
    LET text == o.humanized_text[1]
    IN  IF preserve /\ o.formatting_data # None
        THEN LET fd == o.formatting_data[1]
                 cleared == ClearRuns(p.runs)
                 first == IF cleared # <<>>
                          THEN [cleared[1] EXCEPT !.text = text]
                          ELSE Run(text, DefaultRunFmt)
                 styled == IF fd.run_formats # <<>>
                           THEN apply_run_format(first, fd.run_formats[1])
                           ELSE first
                 runs == IF cleared # <<>>
                         THEN <<styled>> \o Tail(cleared)
                         ELSE <<styled>>
             IN  [p EXCEPT !.runs = runs, !.pfmt = fd.paragraph_format]
        ELSE SetParaText(p, text)

\* ------------------------------------------------------------------ state
VARIABLES
    pc,                    \* position of the main thread in process_docx_threaded
    inputKind,             \* what input_path names: missing, notdocx, corrupt, ok
    file,                  \* the paragraphs of the input file
    fileCells,             \* the table-cell paragraphs of the input file
    backend,               \* the backend's behaviour for the call of paragraph i
    cellBackend,           \* the backend's behaviour for the call of cell k
    preserve_formatting,
    max_workers,
    doc,                   \* doc.paragraphs
    cells,                 \* the paragraphs of doc.tables, in iteration order
    paragraphs_to_process, \* the indices of the tuples collected for the pool
    total_paragraphs,
    submitted,             \* number of executor.submit calls made
    queue,                 \* the executor's work queue
    running,               \* indices whose worker is inside process_paragraph_threaded
    original_text,         \* the worker's local original_text, per index
    futures,               \* the result of each finished future
    collected,             \* futures already yielded by as_completed
    results,
    completed,
    success_count,
    applyIdx,              \* i of the apply loop
    cellIdx,               \* position of the table loops
    cellBusy,              \* the table pass is inside humanize_with_ollama
    out,                   \* what safe_print has printed
    saved,                 \* the output file
    error,                 \* the exception process_docx_threaded ended with
    calls,                 \* number of rewrite calls started, per paragraph index
    mutated,               \* indices mutated by the apply loop, in order
    exit_code,             \* the exit code of main()
    call,                  \* a single call of humanize_with_ollama: text and response
    ret,                   \* what that call returned or raised
    file_pattern,          \* batch mode: the glob pattern
    foldCase,              \* batch mode: glob matches names without regard to case
    dirExists,             \* batch mode: the directory exists
    directory,             \* batch mode: the names of the .docx files in it
    written,               \* batch mode: the paths doc.save has written
    files,                 \* batch mode: the list batch_process_threaded works on
    fileIdx,               \* batch mode: position in files
    output_files,          \* batch mode: the list it returns
    invoked,               \* batch mode: the files the pipeline was invoked with
    pipelineEnd,           \* batch mode: how the pipeline ends for each file
    batchRun,              \* batch mode: number of the batch run
    batchPc,               \* batch mode: position of batch_process_threaded
    lines,                 \* streaming: what response.iter_lines() yields
    callback,              \* streaming: a callback was given
    linePos,               \* streaming: number of lines the loop has taken
    full_response,         \* streaming: the text accumulated
    received,              \* streaming: the chunks the callback was called with
    streamPc,              \* streaming: position of humanize_with_ollama_streaming
    streamRet              \* streaming: what it returned or raised

vars == <<pc, inputKind, file, fileCells, backend, cellBackend,
          preserve_formatting, max_workers, doc, cells, paragraphs_to_process,
          total_paragraphs, submitted, queue, running, original_text, futures,
          collected, results, completed, success_count, applyIdx, cellIdx,
          cellBusy, out, saved, error, calls, mutated, exit_code, call, ret,
          file_pattern, foldCase, dirExists, directory, written, files, fileIdx, output_files, invoked,
          pipelineEnd, batchRun, batchPc, lines, callback, linePos,
          full_response, received, streamPc, streamRet>>

\* the state of main(), of a single rewrite call and of batch mode, which no
\* step of process_docx_threaded touches
mainVars == <<exit_code>>
ollamaVars == <<call, ret>>
batchVars == <<file_pattern, foldCase, dirExists, directory, written, files, fileIdx, output_files,
               invoked, pipelineEnd, batchRun, batchPc>>

streamVars == <<lines, callback, linePos, full_response, received, streamPc,
                streamRet>>

\* the parameters of process_docx_threaded and what its steps leave alone
inputs == <<inputKind, file, fileCells, backend, cellBackend,
            preserve_formatting, max_workers, mainVars, ollamaVars, batchVars,
            streamVars>>

\* what the steps of process_docx_threaded work on
pipelineVars == <<pc, doc, cells, paragraphs_to_process, total_paragraphs,
                  submitted, queue, running, original_text, futures, collected,
                  results, completed, success_count, applyIdx, cellIdx,
                  cellBusy, saved, error, calls, mutated>>

NoCall == [text |-> <<>>, resp |-> BackendOk]

MainIdle == exit_code = None
StreamIdle ==
    /\ lines = <<>>
    /\ callback = FALSE
    /\ linePos = 0
    /\ full_response = <<>>
    /\ received = <<>>
    /\ streamPc = "idle"
    /\ streamRet = None
OllamaIdle == call = NoCall /\ ret = None
BatchIdle ==
    /\ file_pattern = "*.docx"
    /\ foldCase = FALSE
    /\ dirExists = TRUE
    /\ directory = {}
    /\ written = {}
    /\ files = <<>>
    /\ fileIdx = 0
    /\ output_files = <<>>
    /\ invoked = <<>>
    /\ pipelineEnd = <<>>
    /\ batchRun = 0
    /\ batchPc = "idle"

NotLoaded == <<>>

\* (mutant) the test lacks the strip()
IsBlankNoStrip(p) == ParaText(p) = <<>>

\* not paragraph.text.strip()
IsBlank(p) == Strip(ParaText(p)) = <<>>

\* a backend behaviour is drawn for the paragraphs that are submitted only
Behaviours(p) == IF IsBlank(p) THEN {BackendOk} ELSE BackendPool

Init ==
    /\ inputKind \in {"missing", "notdocx", "corrupt", "ok"}
    /\ IF inputKind = "ok"
       THEN /\ file \in [ParaIdx -> ParaPool]
            /\ fileCells \in [CellIdx -> CellPool]
            /\ preserve_formatting \in BOOLEAN
            /\ max_workers \in 1 .. MaxWorkers
       ELSE /\ file = [i \in ParaIdx |-> OneRunPara]
            /\ fileCells = [k \in CellIdx |-> OneRunPara]
            /\ preserve_formatting = TRUE
            /\ max_workers = 1
    /\ backend \in [ParaIdx -> BackendPool]
    /\ \A i \in ParaIdx : backend[i] \in Behaviours(file[i])
    /\ cellBackend \in [CellIdx -> BackendPool]
    /\ \A k \in CellIdx : cellBackend[k] \in Behaviours(fileCells[k])
    /\ inputKind # "ok" =>
           /\ \A i \in ParaIdx : backend[i] = BackendOk
           /\ \A k \in CellIdx : cellBackend[k] = BackendOk
    /\ pc = "validate"
    /\ doc = NotLoaded
    /\ cells = NotLoaded
    /\ paragraphs_to_process = <<>>
    /\ total_paragraphs = 0
    /\ submitted = 0
    /\ queue = <<>>
    /\ running = {}
    /\ original_text = [i \in ParaIdx |-> None]
    /\ futures = [i \in ParaIdx |-> None]
    /\ collected = {}
    /\ results = [i \in ParaIdx |-> None]
    /\ completed = 0
    /\ success_count = 0
    /\ applyIdx = 0
    /\ cellIdx = 0
    /\ cellBusy = FALSE
    /\ out = <<>>
    /\ saved = None
    /\ error = None
    /\ calls = [i \in ParaIdx |-> 0]
    /\ mutated = <<>>
    /\ MainIdle
    /\ StreamIdle
    /\ OllamaIdle
    /\ BatchIdle

\* no run of process_docx_threaded is under way
PipelineIdle ==
    /\ inputKind = "ok"
    /\ file = [i \in ParaIdx |-> EmptyPara]
    /\ fileCells = [k \in CellIdx |-> BlankPara]
    /\ backend = [i \in ParaIdx |-> BackendOk]
    /\ cellBackend = [k \in CellIdx |-> BackendOk]
    /\ preserve_formatting = TRUE
    /\ max_workers = 1
    /\ pc = "idle"
    /\ doc = NotLoaded
    /\ cells = NotLoaded
    /\ paragraphs_to_process = <<>>
    /\ total_paragraphs = 0
    /\ submitted = 0
    /\ queue = <<>>
    /\ running = {}
    /\ original_text = [i \in ParaIdx |-> None]
    /\ futures = [i \in ParaIdx |-> None]
    /\ collected = {}
    /\ results = [i \in ParaIdx |-> None]
    /\ completed = 0
    /\ success_count = 0
    /\ applyIdx = 0
    /\ cellIdx = 0
    /\ cellBusy = FALSE
    /\ saved = None
    /\ error = None
    /\ calls = [i \in ParaIdx |-> 0]
    /\ mutated = <<>>

\* ----------------------------------------------------------------- actions
safe_print(msg) == out' = Append(out, msg)

\* os.path.exists(input_path) and input_path.endswith('.docx')
\* (mutant) the input path is not checked
ValidateNoCheck ==
    /\ pc = "validate"
    /\ pc' = "load"
    /\ UNCHANGED <<inputs, doc, cells, paragraphs_to_process, total_paragraphs,
                   submitted, queue, running, original_text, futures, collected,
                   results, completed, success_count, applyIdx, cellIdx,
                   cellBusy, out, saved, error, calls, mutated>>

Validate ==
    /\ pc = "validate"
    /\ IF inputKind = "missing"
       THEN pc' = "failed" /\ error' = Some("FileNotFoundError")
       ELSE IF inputKind = "notdocx"
       THEN pc' = "failed" /\ error' = Some("ValueError")
       ELSE pc' = "load" /\ error' = error
    /\ UNCHANGED <<inputs, doc, cells, paragraphs_to_process, total_paragraphs,
                   submitted, queue, running, original_text, futures, collected,
                   results, completed, success_count, applyIdx, cellIdx,
                   cellBusy, out, saved, calls, mutated>>

\* doc = Document(input_path)
Load ==
    /\ pc = "load"
    /\ IF inputKind = "corrupt"
       THEN /\ pc' = "failed"
            /\ error' = Some("PackageNotFoundError")
            /\ UNCHANGED <<doc, cells>>
       ELSE /\ pc' = "extract"
            /\ doc' = file
            /\ cells' = fileCells
            /\ error' = error
    /\ safe_print(<<"Reading document">>)
    /\ UNCHANGED <<inputs, paragraphs_to_process, total_paragraphs, submitted,
                   queue, running, original_text, futures, collected, results,
                   completed, success_count, applyIdx, cellIdx, cellBusy,
                   saved, calls, mutated>>

\* the indices i >= from, ascending, whose paragraph.text.strip() is non-empty
RECURSIVE NonEmptyFrom(_, _)
NonEmptyFrom(d, from) ==
    IF from >= NumParas THEN <<>>
    ELSE (IF IsBlank(d[from]) THEN <<>> ELSE <<from>>) \o NonEmptyFrom(d, from + 1)

\* the loop collecting paragraphs_to_process
\* (mutant) a document without units to rewrite is saved at once
ExtractSkipsEmpty ==
    /\ pc = "extract"
    /\ paragraphs_to_process' = NonEmptyFrom(doc, 0)
    /\ total_paragraphs' = Len(paragraphs_to_process')
    /\ safe_print(<<"Processing", total_paragraphs', max_workers>>)
    /\ IF paragraphs_to_process' = <<>>
       THEN /\ pc' = "done"
            /\ saved' = Some([paragraphs |-> doc, cells |-> cells])
            /\ cellIdx' = Cardinality(DOMAIN fileCells)
            /\ applyIdx' = NumParas
       ELSE /\ pc' = "submit"
            /\ UNCHANGED <<saved, cellIdx, applyIdx>>
    /\ UNCHANGED <<inputs, doc, cells, submitted, queue, running, original_text,
                   futures, collected, results, completed, success_count,
                   cellBusy, error, calls, mutated>>

Extract ==
    /\ pc = "extract"
    /\ paragraphs_to_process' = NonEmptyFrom(doc, 0)
    /\ total_paragraphs' = Len(paragraphs_to_process')
    /\ safe_print(<<"Processing", total_paragraphs', max_workers>>)
    /\ pc' = "submit"
    /\ UNCHANGED <<inputs, doc, cells, submitted, queue, running, original_text,
                   futures, collected, results, completed, success_count,
                   applyIdx, cellIdx, cellBusy, saved, error, calls, mutated>>

\* executor.submit(process_paragraph_threaded, para_data), one per tuple; the
\* as_completed loop starts when all are submitted
Submit ==
    /\ pc = "submit"
    /\ IF submitted < Len(paragraphs_to_process)
       THEN /\ queue' = Append(queue, paragraphs_to_process[submitted + 1])
            /\ submitted' = submitted + 1
            /\ pc' = pc
       ELSE /\ pc' = "collect"
            /\ UNCHANGED <<queue, submitted>>
    /\ UNCHANGED <<inputs, doc, cells, paragraphs_to_process, total_paragraphs,
                   running, original_text, futures, collected, results,
                   completed, success_count, applyIdx, cellIdx, cellBusy, out,
                   saved, error, calls, mutated>>

\* (mutant) a thread per task, whatever max_workers says
WorkerFreeAlways(busy, limit) == TRUE

\* ThreadPoolExecutor(max_workers): a worker thread is free to take a task
WorkerFree(busy, limit) == Cardinality(busy) < limit

\* an idle worker takes the next queued task and enters
\* process_paragraph_threaded: it reads paragraph.text and calls the backend
\* (mutant) a task stays in the queue when a worker takes it, so that a
\* second worker takes it too
StartTaskKeepsQueued ==
    /\ queue # <<>>
    /\ WorkerFree(running, max_workers)
    /\ LET i == Head(queue)
       IN  /\ queue' = IF calls[i] = 0 THEN queue ELSE Tail(queue)
           /\ running' = running \cup {i}
           /\ original_text' = [original_text EXCEPT ![i] = Some(ParaText(doc[i]))]
           /\ calls' = [calls EXCEPT ![i] = @ + 1]
    /\ UNCHANGED <<pc, inputs, doc, cells, paragraphs_to_process,
                   total_paragraphs, submitted, futures, collected, results,
                   completed, success_count, applyIdx, cellIdx, cellBusy, out,
                   saved, error, mutated>>

StartTask ==
    /\ queue # <<>>
    /\ WorkerFree(running, max_workers)
    /\ LET i == Head(queue)
       IN  /\ queue' = Tail(queue)
           /\ running' = running \cup {i}
           /\ original_text' = [original_text EXCEPT ![i] = Some(ParaText(doc[i]))]
           /\ calls' = [calls EXCEPT ![i] = @ + 1]
    /\ UNCHANGED <<pc, inputs, doc, cells, paragraphs_to_process,
                   total_paragraphs, submitted, futures, collected, results,
                   completed, success_count, applyIdx, cellIdx, cellBusy, out,
                   saved, error, mutated>>

\* (mutant) the worker writes the rewritten text into its paragraph itself
FinishTaskInPlace(i) ==
    /\ i \in running
    /\ running' = running \ {i}
    /\ LET t == process_paragraph_threaded(i, original_text[i][1], doc[i],
                                           backend[i], preserve_formatting)
       IN  /\ futures' = [futures EXCEPT ![i] = Some(t)]
           /\ doc' = IF t[2].success
                     THEN [doc EXCEPT ![i] = SetParaText(@, t[2].humanized_text[1])]
                     ELSE doc
    /\ UNCHANGED <<pc, inputs, cells, paragraphs_to_process,
                   total_paragraphs, submitted, queue, original_text, collected,
                   results, completed, success_count, applyIdx, cellIdx,
                   cellBusy, out, saved, error, calls, mutated>>

\* the call of worker i returns or raises; the worker returns its tuple
FinishTask(i) ==
    /\ i \in running
    /\ running' = running \ {i}
    /\ futures' = [futures EXCEPT ![i] =
           Some(process_paragraph_threaded(i, original_text[i][1], doc[i],
                                           backend[i], preserve_formatting))]
    /\ UNCHANGED <<pc, inputs, doc, cells, paragraphs_to_process,
                   total_paragraphs, submitted, queue, original_text, collected,
                   results, completed, success_count, applyIdx, cellIdx,
                   cellBusy, out, saved, error, calls, mutated>>

\* (mutant) the outcome is stored under its completion position
RecordByPosition(res, index, outcome) == [res EXCEPT ![completed] = Some(outcome)]

\* results[index] = (success, humanized_text, formatting_data, error)
Record(res, index, outcome) == [res EXCEPT ![index] = Some(outcome)]

\* one iteration of `for future in as_completed(future_to_index)`
\* (mutant) only the successes are counted
CollectCountsSuccesses(f) ==
    /\ pc = "collect"
    /\ futures[f] # None
    /\ f \notin collected
    /\ LET index == futures[f][1][1]
           outcome == futures[f][1][2]
       IN  /\ results' = Record(results, index, outcome)
           /\ completed' = IF outcome.success THEN completed + 1 ELSE completed
           /\ IF outcome.success
              THEN safe_print(<<"Processed", completed', total_paragraphs, index>>)
              ELSE safe_print(<<"Failed", completed', total_paragraphs, index,
                           outcome.error[1]>>)
    /\ collected' = collected \cup {f}
    /\ UNCHANGED <<pc, inputs, doc, cells, paragraphs_to_process,
                   total_paragraphs, submitted, queue, running, original_text,
                   futures, success_count, applyIdx, cellIdx, cellBusy, saved,
                   error, calls, mutated>>

Collect(f) ==
    /\ pc = "collect"
    /\ futures[f] # None
    /\ f \notin collected
    /\ LET index == futures[f][1][1]
           outcome == futures[f][1][2]
       IN  /\ results' = Record(results, index, outcome)
           /\ completed' = completed + 1
           /\ IF outcome.success
              THEN safe_print(<<"Processed", completed', total_paragraphs, index>>)
              ELSE safe_print(<<"Failed", completed', total_paragraphs, index,
                           outcome.error[1]>>)
    /\ collected' = collected \cup {f}
    /\ UNCHANGED <<pc, inputs, doc, cells, paragraphs_to_process,
                   total_paragraphs, submitted, queue, running, original_text,
                   futures, success_count, applyIdx, cellIdx, cellBusy, saved,
                   error, calls, mutated>>

Range(s) == {s[n] : n \in 1 .. Len(s)}

\* (mutant) the loop is left at the first Failure outcome
PoolDrainedFailFast(done, all) ==
    done = all \/ \E i \in done : results[i] # None /\ ~results[i][1].success

\* (mutant) the loop ends only when every outcome is a success
PoolDrainedNeedsSuccess(done, all) ==
    done = all /\ \A i \in done : results[i] # None /\ results[i][1].success

\* as_completed has yielded every future: the loop and the with block end
PoolDrained(done, all) == done = all

EndCollect ==
    /\ pc = "collect"
    /\ PoolDrained(collected, Range(paragraphs_to_process))
    /\ pc' = "apply"
    /\ safe_print(<<"Applying changes to document">>)
    /\ success_count' = 0
    /\ applyIdx' = 0
    /\ UNCHANGED <<inputs, doc, cells, paragraphs_to_process, total_paragraphs,
                   submitted, queue, running, original_text, futures, collected,
                   results, completed, cellIdx, cellBusy, saved, error, calls,
                   mutated>>

\* (mutant) the loop walks the results map, that is in completion order
ApplyTargetByCompletion(n) ==
    LET order == SelectSeq(out, LAMBDA m : m[1] \in {"Processed", "Failed"})
    IN  IF n < Len(order) THEN order[n + 1][4]
        ELSE CHOOSE i \in ParaIdx : results[i] = None

\* enumerate(doc.paragraphs): the index visited by iteration n
ApplyTarget(n) == n

\* (mutant) the Failure branch lacks its `continue`
ApplyStepNoContinue ==
    /\ pc = "apply"
    /\ applyIdx < NumParas
    /\ LET i == ApplyTarget(applyIdx)
       IN  IF results[i] = None
           THEN UNCHANGED <<doc, success_count, out, mutated>>
           ELSE IF ~results[i][1].success
           THEN /\ safe_print(<<"Warning: Keeping original text for paragraph", i,
                           results[i][1].error[1]>>)
                /\ doc' = [doc EXCEPT ![i] = SetParaText(doc[i], <<>>)]
                /\ success_count' = success_count + 1
                /\ mutated' = Append(mutated, i)
           ELSE /\ doc' = [doc EXCEPT ![i] =
                       ApplyOutcome(doc[i], results[i][1], preserve_formatting)]
                /\ success_count' = success_count + 1
                /\ mutated' = Append(mutated, i)
                /\ out' = out
    /\ applyIdx' = applyIdx + 1
    /\ UNCHANGED <<pc, inputs, cells, paragraphs_to_process, total_paragraphs,
                   submitted, queue, running, original_text, futures, collected,
                   results, completed, cellIdx, cellBusy, saved, error, calls>>

\* one iteration of `for i, paragraph in enumerate(doc.paragraphs)`
\* (mutant) every unit is given the snapshot of the first rewritten unit
ApplyStepSharedSnapshot ==
    /\ pc = "apply"
    /\ applyIdx < NumParas
    /\ LET i == ApplyTarget(applyIdx)
           done == {j \in ParaIdx : results[j] # None /\ results[j][1].success}
           first == CHOOSE j \in done : \A k \in done : j <= k
       IN  IF results[i] = None
           THEN UNCHANGED <<doc, success_count, out, mutated>>
           ELSE IF ~results[i][1].success
           THEN /\ safe_print(<<"Warning: Keeping original text for paragraph", i,
                           results[i][1].error[1]>>)
                /\ UNCHANGED <<doc, success_count, mutated>>
           ELSE /\ doc' = [doc EXCEPT ![i] =
                       ApplyOutcome(doc[i],
                                    [results[i][1] EXCEPT !.formatting_data =
                                         results[first][1].formatting_data],
                                    preserve_formatting)]
                /\ success_count' = success_count + 1
                /\ mutated' = Append(mutated, i)
                /\ out' = out
    /\ applyIdx' = applyIdx + 1
    /\ UNCHANGED <<pc, inputs, cells, paragraphs_to_process, total_paragraphs,
                   submitted, queue, running, original_text, futures, collected,
                   results, completed, cellIdx, cellBusy, saved, error, calls>>

ApplyStep ==
    /\ pc = "apply"
    /\ applyIdx < NumParas
    /\ LET i == ApplyTarget(applyIdx)
       IN  IF results[i] = None
           THEN UNCHANGED <<doc, success_count, out, mutated>>
           ELSE IF ~results[i][1].success
           THEN /\ safe_print(<<"Warning: Keeping original text for paragraph", i,
                           results[i][1].error[1]>>)
                /\ UNCHANGED <<doc, success_count, mutated>>
           ELSE /\ doc' = [doc EXCEPT ![i] =
                       ApplyOutcome(doc[i], results[i][1], preserve_formatting)]
                /\ success_count' = success_count + 1
                /\ mutated' = Append(mutated, i)
                /\ out' = out
    /\ applyIdx' = applyIdx + 1
    /\ UNCHANGED <<pc, inputs, cells, paragraphs_to_process, total_paragraphs,
                   submitted, queue, running, original_text, futures, collected,
                   results, completed, cellIdx, cellBusy, saved, error, calls>>

EndApply ==
    /\ pc = "apply"
    /\ applyIdx = NumParas
    /\ pc' = "tables"
    /\ safe_print(<<"Processing tables">>)
    /\ UNCHANGED <<inputs, doc, cells, paragraphs_to_process, total_paragraphs,
                   submitted, queue, running, original_text, futures, collected,
                   results, completed, success_count, applyIdx, cellIdx,
                   cellBusy, saved, error, calls, mutated>>

\* the number of paragraphs the loops over doc.tables visit
CellCount == Cardinality(DOMAIN fileCells)

\* the table loops reach the next cell paragraph: skip it, or call the backend
TableStep ==
    /\ pc = "tables"
    /\ cellIdx < CellCount
    /\ ~cellBusy
    /\ IF IsBlank(cells[cellIdx])
       THEN cellIdx' = cellIdx + 1 /\ cellBusy' = cellBusy
       ELSE cellBusy' = TRUE /\ cellIdx' = cellIdx
    /\ UNCHANGED <<pc, inputs, doc, cells, paragraphs_to_process,
                   total_paragraphs, submitted, queue, running, original_text,
                   futures, collected, results, completed, success_count,
                   applyIdx, out, saved, error, calls, mutated>>

\* (mutant) the first failing cell ends the table pass
TableReturnStopsOnFailure ==
    /\ pc = "tables"
    /\ cellBusy
    /\ LET r == humanize_with_ollama(ParaText(cells[cellIdx]), cellBackend[cellIdx])
       IN  IF r.raised
           THEN /\ safe_print(<<"Warning: Could not process table cell", r.error[1]>>)
                /\ cells' = cells
                /\ cellIdx' = CellCount
           ELSE /\ cells' = [cells EXCEPT ![cellIdx] = SetParaText(@, r.value)]
                /\ out' = out
                /\ cellIdx' = cellIdx + 1
    /\ cellBusy' = FALSE
    /\ UNCHANGED <<pc, inputs, doc, paragraphs_to_process, total_paragraphs,
                   submitted, queue, running, original_text, futures, collected,
                   results, completed, success_count, applyIdx, saved, error,
                   calls, mutated>>

\* the call for a cell paragraph returns or raises
TableReturn ==
    /\ pc = "tables"
    /\ cellBusy
    /\ LET r == humanize_with_ollama(ParaText(cells[cellIdx]), cellBackend[cellIdx])
       IN  IF r.raised
           THEN /\ safe_print(<<"Warning: Could not process table cell", r.error[1]>>)
                /\ cells' = cells
           ELSE /\ cells' = [cells EXCEPT ![cellIdx] = SetParaText(@, r.value)]
                /\ out' = out
    /\ cellBusy' = FALSE
    /\ cellIdx' = cellIdx + 1
    /\ UNCHANGED <<pc, inputs, doc, paragraphs_to_process, total_paragraphs,
                   submitted, queue, running, original_text, futures, collected,
                   results, completed, success_count, applyIdx, saved, error,
                   calls, mutated>>

\* "Done! Successfully processed {success_count}/{total_paragraphs}"
ReportCompleted == <<"Done", completed, total_paragraphs>>
Report == <<"Done", success_count, total_paragraphs>>

\* doc.save(output_path) and the final report
Save ==
    /\ pc = "tables"
    /\ cellIdx = CellCount
    /\ saved' = Some([paragraphs |-> doc, cells |-> cells])
    /\ safe_print(Report)
    /\ pc' = "done"
    /\ UNCHANGED <<inputs, doc, cells, paragraphs_to_process, total_paragraphs,
                   submitted, queue, running, original_text, futures, collected,
                   results, completed, success_count, applyIdx, cellIdx,
                   cellBusy, error, calls, mutated>>

Next ==
    \/ Validate
    \/ Load
    \/ Extract
    \/ Submit
    \/ StartTask
    \/ \E i \in ParaIdx : FinishTask(i)
    \/ \E f \in ParaIdx : Collect(f)
    \/ EndCollect
    \/ ApplyStep
    \/ EndApply
    \/ TableStep
    \/ TableReturn
    \/ Save

Spec == Init /\ [][Next]_vars

\* ------------------------------------------- documents with larger tables
\* one document body: a two-run unit whose call fails, a whitespace-only
\* unit, and one-run units whose calls succeed
FocusFile ==
    [i \in ParaIdx |->
        IF i = 0 THEN TwoRunPara ELSE IF i = 1 THEN BlankPara ELSE OneRunPara]
FocusBackend == [i \in ParaIdx |-> IF i = 0 THEN Backend500 ELSE BackendOk]

CellBackendPool == {BackendOk, Backend500, BackendRefused}
CellBehaviours(p) == IF IsBlank(p) THEN {BackendOk} ELSE CellBackendPool

\* the input is as in Init, but for the document: its body is FocusFile and
\* its tables hold up to MaxTableCells paragraphs
InitTables ==
    /\ inputKind \in {"missing", "notdocx", "corrupt", "ok"}
    /\ file = FocusFile
    /\ backend = FocusBackend
    /\ IF inputKind = "ok"
       THEN /\ \E n \in 0 .. MaxTableCells :
                   /\ fileCells \in [0 .. (n - 1) -> CellPool]
                   /\ cellBackend \in [0 .. (n - 1) -> CellBackendPool]
            /\ \A k \in DOMAIN fileCells : cellBackend[k] \in CellBehaviours(fileCells[k])
            /\ preserve_formatting \in BOOLEAN
            /\ max_workers \in 1 .. MaxWorkers
       ELSE /\ fileCells = <<>>
            /\ cellBackend = <<>>
            /\ preserve_formatting = TRUE
            /\ max_workers = 1
    /\ pc = "validate"
    /\ doc = NotLoaded
    /\ cells = NotLoaded
    /\ paragraphs_to_process = <<>>
    /\ total_paragraphs = 0
    /\ submitted = 0
    /\ queue = <<>>
    /\ running = {}
    /\ original_text = [i \in ParaIdx |-> None]
    /\ futures = [i \in ParaIdx |-> None]
    /\ collected = {}
    /\ results = [i \in ParaIdx |-> None]
    /\ completed = 0
    /\ success_count = 0
    /\ applyIdx = 0
    /\ cellIdx = 0
    /\ cellBusy = FALSE
    /\ out = <<>>
    /\ saved = None
    /\ error = None
    /\ calls = [i \in ParaIdx |-> 0]
    /\ mutated = <<>>
    /\ MainIdle
    /\ StreamIdle
    /\ OllamaIdle
    /\ BatchIdle

SpecTables == InitTables /\ [][Next]_vars

\* ------------------------------------------- documents with hyperlinks
LinkOnlyPara == LinkPara(<<>>, "justify", <<"x">>)
RunLinkPara == LinkPara(<<Run(<<"a", " ">>, "bold")>>, "center", <<"x">>)
LinkPool == {BlankPara, OneRunPara, LinkOnlyPara, RunLinkPara}

\* the input is a readable document whose paragraphs are drawn from pool
InitWith(pool) ==
    /\ inputKind = "ok"
    /\ file \in [ParaIdx -> pool]
    /\ backend \in [ParaIdx -> {BackendOk, Backend500}]
    /\ \A i \in ParaIdx : IsBlank(file[i]) => backend[i] = BackendOk
    /\ fileCells \in [CellIdx -> CellPool]
    /\ cellBackend = [k \in CellIdx |-> BackendOk]
    /\ preserve_formatting \in BOOLEAN
    /\ max_workers \in 1 .. MaxWorkers
    /\ pc = "validate"
    /\ doc = NotLoaded
    /\ cells = NotLoaded
    /\ paragraphs_to_process = <<>>
    /\ total_paragraphs = 0
    /\ submitted = 0
    /\ queue = <<>>
    /\ running = {}
    /\ original_text = [i \in ParaIdx |-> None]
    /\ futures = [i \in ParaIdx |-> None]
    /\ collected = {}
    /\ results = [i \in ParaIdx |-> None]
    /\ completed = 0
    /\ success_count = 0
    /\ applyIdx = 0
    /\ cellIdx = 0
    /\ cellBusy = FALSE
    /\ out = <<>>
    /\ saved = None
    /\ error = None
    /\ calls = [i \in ParaIdx |-> 0]
    /\ mutated = <<>>
    /\ MainIdle
    /\ StreamIdle
    /\ OllamaIdle
    /\ BatchIdle

\* documents whose paragraphs may hold hyperlinks
InitLinks == InitWith(LinkPool)

SpecLinks == InitLinks /\ [][Next]_vars

\* documents with a run whose attributes cannot be read
BrokenPara == Para(<<Run(<<"a">>, "bold"), Run(<<"b">>, "broken")>>, "center")
CapturePool == {BlankPara, OneRunPara, BrokenPara}

InitCapture == InitWith(CapturePool)

SpecCapture == InitCapture /\ [][Next]_vars

\* -------------------------------------------------------------- batch mode
\* A file is the parts of its stem, "_edited" being the part the pipeline
\* appends, and its extension; a path is a directory and a file.
File(name, ext) == [name |-> name, ext |-> ext]
Path(dir, name, ext) == [dir |-> dir, name |-> name, ext |-> ext]

\* os.path.join(directory, f) of a file that glob listed
JoinPath(f) == Path("docs", f.name, f.ext)

\* the output path of process_docx_threaded(input_path)
OutputPath(p) ==
    Path(IF p.dir = "" THEN "." ELSE p.dir, Append(p.name, "_edited"), p.ext)

\* f.endswith('_edited.docx')
EndsWithEdited(f) ==
    f.name # <<>> /\ f.name[Len(f.name)] = "_edited" /\ f.ext = ".docx"

\* glob.glob(os.path.join(directory, file_pattern)); fnmatch compares the
\* normcase of the name and of the pattern, which folds case on Windows
Glob(dir, pattern, fold) ==
    {f \in dir : \/ pattern = "*"
                 \/ pattern = "*.docx" /\ f.ext = ".docx"
                 \/ pattern = "*.docx" /\ fold /\ f.ext = ".DOCX"}

\* (mutant) the files with the _edited suffix are not left out
DiscoveredAll(dir, pattern, fold) == Glob(dir, pattern, fold)

\* the files batch mode keeps
Discovered(dir, pattern, fold) ==
    {f \in Glob(dir, pattern, fold) : ~EndsWithEdited(f)}

\* the orders in which glob can list a set of files
Orders(S) ==
    {s \in [1 .. Cardinality(S) -> S] : \A m, n \in DOMAIN s : m # n => s[m] # s[n]}

FilePool == {File(<<"a">>, ".docx"), File(<<"b">>, ".docx"),
             File(<<"a", "_edited">>, ".docx"), File(<<"c", "_edited">>, ".DOCX")}
PipelineEnds == {"ok", "FileNotFoundError", "ValueError", "SaveError"}

\* how process_docx_threaded(input_file) ends: a path that does not end in
\* '.docx' is refused by the validation; an earlier output is a well-formed
\* document
PipelineEndOf(f) ==
    IF f.ext # ".docx" THEN "ValueError"
    ELSE IF f \in DOMAIN pipelineEnd THEN pipelineEnd[f]
    ELSE "ok"

InitBatch ==
    /\ PipelineIdle
    /\ MainIdle
    /\ StreamIdle
    /\ OllamaIdle
    /\ out = <<>>
    /\ file_pattern \in {"*.docx", "*"}
    /\ foldCase \in BOOLEAN
    /\ dirExists \in BOOLEAN
    /\ directory \in SUBSET FilePool
    /\ ~dirExists => directory = {} /\ file_pattern = "*.docx" /\ ~foldCase
    /\ pipelineEnd \in [FilePool -> PipelineEnds]
    /\ \A f \in FilePool :
           f \notin Discovered(directory, file_pattern, foldCase) =>
               pipelineEnd[f] = "ok"
    /\ \A f \in FilePool : f.ext # ".docx" => pipelineEnd[f] = "ok"
    /\ written = {}
    /\ files = <<>>
    /\ fileIdx = 0
    /\ output_files = <<>>
    /\ invoked = <<>>
    /\ batchRun = 1
    /\ batchPc = "start"

batchFrame == <<inputKind, file, fileCells, backend, cellBackend,
                preserve_formatting, max_workers, pipelineVars, mainVars,
                ollamaVars, streamVars, file_pattern, foldCase, dirExists,
                pipelineEnd>>

\* batch_process_threaded up to its loop: the directory test, the glob and
\* the filter
BatchStart ==
    /\ batchPc = "start"
    /\ IF ~dirExists
       THEN /\ batchPc' = "failed"
            /\ UNCHANGED <<files, out>>
       ELSE /\ files' \in Orders(Discovered(directory, file_pattern, foldCase))
            /\ IF files' = <<>>
               THEN /\ safe_print(<<"No docx files found">>)
                    /\ batchPc' = "returned"
               ELSE /\ batchPc' = "loop"
                    /\ out' = out
    /\ invoked' = Append(invoked, <<>>)
    /\ UNCHANGED <<batchFrame, directory, written, fileIdx, output_files, batchRun>>

\* (mutant) a failing file ends the loop
BatchFileStopsOnFailure ==
    /\ batchPc = "loop"
    /\ fileIdx < Len(files)
    /\ LET f == files[fileIdx + 1]
           input_file == JoinPath(f)
           header == <<"Processing file", fileIdx + 1, Len(files), f>>
       IN  /\ invoked' = [invoked EXCEPT ![batchRun] = Append(@, f)]
           /\ IF PipelineEndOf(f) = "ok"
              THEN /\ written' = written \cup {OutputPath(input_file)}
                   /\ directory' = directory \cup
                          {File(OutputPath(input_file).name, OutputPath(input_file).ext)}
                   /\ output_files' = Append(output_files, OutputPath(input_file))
                   /\ out' = Append(out, header)
                   /\ fileIdx' = fileIdx + 1
              ELSE /\ out' = out \o <<header,
                                       <<"Error processing", input_file, PipelineEndOf(f)>>>>
                   /\ fileIdx' = Len(files)
                   /\ UNCHANGED <<written, directory, output_files>>
    /\ UNCHANGED <<batchFrame, files, batchRun, batchPc>>

\* one iteration of the loop over files: process_docx_threaded(input_file)
\* returns its output path after saving, or raises
BatchFile ==
    /\ batchPc = "loop"
    /\ fileIdx < Len(files)
    /\ LET f == files[fileIdx + 1]
           input_file == JoinPath(f)
           header == <<"Processing file", fileIdx + 1, Len(files), f>>
       IN  /\ invoked' = [invoked EXCEPT ![batchRun] = Append(@, f)]
           /\ IF PipelineEndOf(f) = "ok"
              THEN /\ written' = written \cup {OutputPath(input_file)}
                   /\ directory' = directory \cup
                          {File(OutputPath(input_file).name, OutputPath(input_file).ext)}
                   /\ output_files' = Append(output_files, OutputPath(input_file))
                   /\ out' = Append(out, header)
              ELSE /\ out' = out \o <<header,
                                       <<"Error processing", input_file, PipelineEndOf(f)>>>>
                   /\ UNCHANGED <<written, directory, output_files>>
    /\ fileIdx' = fileIdx + 1
    /\ UNCHANGED <<batchFrame, files, batchRun, batchPc>>

\* the loop is over: the summary and the return of output_files
BatchEnd ==
    /\ batchPc = "loop"
    /\ fileIdx = Len(files)
    /\ safe_print(<<"Batch processing complete", Len(output_files), Len(files)>>)
    /\ batchPc' = "returned"
    /\ UNCHANGED <<batchFrame, directory, written, files, fileIdx, output_files,
                   invoked, batchRun>>

\* batch mode is run again over the same directory
BatchAgain ==
    /\ batchPc = "returned"
    /\ batchRun < MaxBatchRuns
    /\ batchRun' = batchRun + 1
    /\ batchPc' = "start"
    /\ files' = <<>>
    /\ fileIdx' = 0
    /\ output_files' = <<>>
    /\ out' = <<>>
    /\ UNCHANGED <<batchFrame, directory, written, invoked>>

NextBatch ==
    \/ BatchStart
    \/ BatchFile
    \/ BatchEnd
    \/ BatchAgain

SpecBatch == InitBatch /\ [][NextBatch]_vars

\* ------------------------------------------------------------------ main
\* the documents of the runs of main(): paragraphs of one run, blank or not,
\* and a backend that answers 200 or 500
InitMain ==
    /\ Init
    /\ \A i \in ParaIdx : file[i] \in {OneRunPara, BlankPara}
    /\ \A i \in ParaIdx : backend[i] \in {BackendOk, Backend500}
    /\ \A k \in CellIdx : cellBackend[k] \in {BackendOk, Backend500}

mainFrame == <<inputKind, file, fileCells, backend, cellBackend,
               preserve_formatting, max_workers, ollamaVars, batchVars,
               streamVars>>

\* (mutant) the interrupt is handled by saving what has been applied so far
InterruptSavesPartial ==
    /\ exit_code = None
    /\ pc \in {"validate", "load", "extract", "submit", "collect", "apply", "tables"}
    /\ pc' = "interrupted"
    /\ error' = Some("KeyboardInterrupt")
    /\ cellBusy' = FALSE
    /\ saved' = IF doc # NotLoaded
                THEN Some([paragraphs |-> doc, cells |-> cells]) ELSE saved
    /\ UNCHANGED <<mainFrame, mainVars, doc, cells, paragraphs_to_process,
                   total_paragraphs, submitted, queue, running, original_text,
                   futures, collected, results, completed, success_count,
                   applyIdx, cellIdx, out, calls, mutated>>

\* KeyboardInterrupt is raised in the main thread somewhere before doc.save:
\* no except clause of process_docx_threaded catches it (they catch
\* Exception), a call under way in the table pass is abandoned, and the exit
\* of the with block waits for the tasks already submitted
Interrupt ==
    /\ exit_code = None
    /\ pc \in {"validate", "load", "extract", "submit", "collect", "apply", "tables"}
    /\ pc' = "interrupted"
    /\ error' = Some("KeyboardInterrupt")
    /\ cellBusy' = FALSE
    /\ UNCHANGED <<mainFrame, mainVars, doc, cells, paragraphs_to_process,
                   total_paragraphs, submitted, queue, running, original_text,
                   futures, collected, results, completed, success_count,
                   applyIdx, cellIdx, out, saved, calls, mutated>>

\* main() ends: process_docx_threaded returned, or raised into one of the two
\* except clauses
MainExit ==
    /\ exit_code = None
    /\ pc \in {"done", "failed", "interrupted"}
    /\ pc = "interrupted" => queue = <<>> /\ running = {}
    /\ IF pc = "done"
       THEN exit_code' = Some(0) /\ out' = out
       ELSE IF pc = "interrupted"
       THEN exit_code' = Some(1) /\ out' = Append(out, <<"Process interrupted by user.">>)
       ELSE exit_code' = Some(1) /\ out' = Append(out, <<"Error:", error[1]>>)
    /\ UNCHANGED <<mainFrame, pipelineVars>>

NextMain ==
    \/ Next
    \/ Interrupt
    \/ MainExit

SpecMain == InitMain /\ [][NextMain]_vars

\* -------------------------------------------------------------- liveness
\* The main thread keeps running, a free worker takes the next task of the
\* queue, and every rewrite call returns or raises (requests.post has a
\* timeout).
Fairness ==
    /\ WF_vars(Validate)
    /\ WF_vars(Load)
    /\ WF_vars(Extract)
    /\ WF_vars(Submit)
    /\ WF_vars(StartTask)
    /\ \A i \in ParaIdx : WF_vars(FinishTask(i))
    /\ WF_vars(\E f \in ParaIdx : Collect(f))
    /\ WF_vars(EndCollect)
    /\ WF_vars(ApplyStep)
    /\ WF_vars(EndApply)
    /\ WF_vars(TableStep)
    /\ WF_vars(TableReturn)
    /\ WF_vars(Save)

\* the runs of process_docx_threaded over the documents of InitMain, nothing
\* interrupting them
SpecLive == InitMain /\ [][Next]_vars /\ Fairness

\* ------------------------------------------------- a single rewrite call
\* the texts and the responses a single call is tried on
CallTexts == {<<"a">>, <<" ", "a", " ">>, <<"a", " ", "b">>}
Statuses == {200, 204, 404, 500}
CallResponses ==
    {Response(t, st, j, f, b) :
        t \in {"ok", "refused", "timeout"}, st \in Statuses, j \in BOOLEAN,
        f \in BOOLEAN, b \in {"body 1", "body 2"}}

InitOllama ==
    /\ PipelineIdle
    /\ out = <<>>
    /\ MainIdle
    /\ StreamIdle
    /\ BatchIdle
    /\ call \in [text : CallTexts, resp : CallResponses]
    /\ ret = None

\* humanize_with_ollama(text, ...) is called and returns or raises
CallOllama ==
    /\ ret = None
    /\ ret' = Some(humanize_with_ollama(call.text, call.resp))
    /\ UNCHANGED <<call, inputKind, file, fileCells, backend, cellBackend,
                   preserve_formatting, max_workers, pipelineVars, out,
                   mainVars, batchVars, streamVars>>

NextOllama == CallOllama

SpecOllama == InitOllama /\ [][NextOllama]_vars

\* -------------------------------------------------------------- streaming
\* A line of the streamed response: an empty keep-alive line, a line that is
\* not JSON, a JSON chunk with its text and its done flag, or the connection
\* breaking while the line is read.
Line(kind, text, done) == [kind |-> kind, text |-> text, done |-> done]

ChunkTexts == {<<>>, <<"a">>, <<" ">>, <<"b", " ">>}
LinePool ==
    {Line("blank", <<>>, FALSE), Line("bad", <<>>, FALSE), Line("drop", <<>>, FALSE)}
        \cup {Line("chunk", t, d) : t \in ChunkTexts, d \in BOOLEAN}

StreamResponses == {BackendOk, Backend500, BackendRefused, BackendTimeout}

InitStream ==
    /\ PipelineIdle
    /\ out = <<>>
    /\ MainIdle
    /\ BatchIdle
    /\ ret = None
    /\ call \in [text : {<<"a">>}, resp : StreamResponses]
    /\ callback \in BOOLEAN
    /\ IF call.resp = BackendOk
       THEN \E n \in 0 .. MaxLines : lines \in [1 .. n -> LinePool]
       ELSE lines = <<>>
    /\ linePos = 0
    /\ full_response = <<>>
    /\ received = <<>>
    /\ streamPc = "start"
    /\ streamRet = None

streamFrame == <<inputKind, file, fileCells, backend, cellBackend,
                 preserve_formatting, max_workers, pipelineVars, out, mainVars,
                 batchVars, ollamaVars, lines, callback>>

\* requests.post(..., stream=True) and the test of the status code
StreamOpen ==
    /\ streamPc = "start"
    /\ IF call.resp.transport = "refused"
       THEN /\ streamRet' = Some(Raised(Reason("Could not connect to Ollama", 0, "")))
            /\ streamPc' = "raised"
       ELSE IF call.resp.transport = "timeout"
       THEN /\ streamRet' = Some(Raised(Reason("Request to Ollama timed out", 0, "")))
            /\ streamPc' = "raised"
       ELSE IF call.resp.status = 200
       THEN /\ streamRet' = streamRet
            /\ streamPc' = "iter"
       ELSE /\ streamRet' = Some(Raised(Reason(
                    "Error calling Ollama: Ollama API returned status code",
                    call.resp.status, call.resp.body)))
            /\ streamPc' = "raised"
    /\ full_response' = <<>>
    /\ UNCHANGED <<streamFrame, linePos, received>>

\* (mutant) the callback is called for every chunk, empty ones included
StreamLineEveryChunk ==
    /\ streamPc = "iter"
    /\ linePos < Len(lines)
    /\ linePos' = linePos + 1
    /\ LET line == lines[linePos + 1]
       IN  IF line.kind = "drop"
           THEN /\ streamRet' = Some(Raised(Reason(
                        "Error calling Ollama: ChunkedEncodingError", 0, "")))
                /\ streamPc' = "raised"
                /\ UNCHANGED <<full_response, received>>
           ELSE IF line.kind = "chunk"
           THEN /\ full_response' = full_response \o line.text
                /\ received' = IF callback THEN Append(received, line.text) ELSE received
                /\ streamPc' = IF line.done THEN "break" ELSE "iter"
                /\ streamRet' = streamRet
           ELSE UNCHANGED <<full_response, received, streamPc, streamRet>>
    /\ UNCHANGED streamFrame

\* one turn of the loop over response.iter_lines()
StreamLine ==
    /\ streamPc = "iter"
    /\ linePos < Len(lines)
    /\ linePos' = linePos + 1
    /\ LET line == lines[linePos + 1]
       IN  IF line.kind = "drop"
           THEN /\ streamRet' = Some(Raised(Reason(
                        "Error calling Ollama: ChunkedEncodingError", 0, "")))
                /\ streamPc' = "raised"
                /\ UNCHANGED <<full_response, received>>
           ELSE IF line.kind = "chunk"
           THEN /\ full_response' = full_response \o line.text
                /\ received' = IF callback /\ line.text # <<>>
                               THEN Append(received, line.text) ELSE received
                /\ streamPc' = IF line.done THEN "break" ELSE "iter"
                /\ streamRet' = streamRet
           ELSE UNCHANGED <<full_response, received, streamPc, streamRet>>
    /\ UNCHANGED streamFrame

\* the loop is over, by break or at the end of the lines
StreamReturn ==
    /\ streamPc = "break" \/ (streamPc = "iter" /\ linePos = Len(lines))
    /\ streamRet' = Some(Returned(Strip(full_response)))
    /\ streamPc' = "returned"
    /\ UNCHANGED <<streamFrame, linePos, full_response, received>>

NextStream ==
    \/ StreamOpen
    \/ StreamLine
    \/ StreamReturn

SpecStream == InitStream /\ [][NextStream]_vars

\* ------------------------------------------------------ notions of the claims
\* a text of whitespace only (the empty text included)
WhitespaceOnly(t) == \A n \in 1 .. Len(t) : t[n] = " "

RECURSIVE TextOfRuns(_, _)
TextOfRuns(runs, n) ==
    IF n > Len(runs) THEN <<>> ELSE runs[n].text \o TextOfRuns(runs, n + 1)

\* the non-empty units of the input document
NonEmptyUnits == {i \in ParaIdx : ~WhitespaceOnly(TextOfRuns(file[i].runs, 1))}
N == Cardinality(NonEmptyUnits)

HasOutcome == {i \in ParaIdx : results[i] # None}
Succeeded == {i \in HasOutcome : results[i][1].success}
Failures == {i \in HasOutcome : ~results[i][1].success}

PoolPhase == pc \in {"submit", "collect"}
AfterPool == pc \in {"apply", "tables", "done"}

\* the indices of the outcomes in the order the main thread collected them
RECURSIVE CollectOrderFrom(_)
CollectOrderFrom(n) ==
    IF n > Len(out) THEN <<>>
    ELSE (IF out[n][1] \in {"Processed", "Failed"} THEN <<out[n][4]>> ELSE <<>>)
         \o CollectOrderFrom(n + 1)
CollectOrder == CollectOrderFrom(1)

Printed(msg) == \E n \in 1 .. Len(out) : out[n] = msg

\* ---------------------------------------------------------------------- C1
\* C1 (completeness): once the pool has drained, the results map holds an
\* outcome for each of the N non-empty paragraphs of the document and for no
\* other index, and N outcomes were collected; this for every pool size,
\* completion order and set of failing calls.
C1_Completeness ==
    AfterPool => /\ HasOutcome = NonEmptyUnits
                 /\ completed = N
                 /\ Len(CollectOrder) = N

\* three units, two workers, a failing call, and the last unit collected first
C1_Witness ==
    /\ pc = "apply"
    /\ N = 3
    /\ max_workers = 2
    /\ Failures # {}
    /\ Succeeded # {}
    /\ CollectOrder[1] = 2

\* ---------------------------------------------------------------------- C2
\* what the rewrite call of unit j returns or raises, from j's own text and
\* j's own backend behaviour
OwnCall(j) == humanize_with_ollama(TextOfRuns(file[j].runs, 1), backend[j])

\* C2 (isolation): whatever the calls of the other units do, every submitted
\* unit j was called once and ran to its end, its outcome (success flag and
\* rewritten text) is the one of its own call, and the text finally saved for
\* j is the rewritten text of its own call, or its original text when its own
\* call raised.
C2_Isolation ==
    /\ AfterPool =>
           \A j \in NonEmptyUnits :
               /\ calls[j] = 1
               /\ futures[j] # None
               /\ results[j] # None
               /\ results[j][1].success = ~OwnCall(j).raised
               /\ results[j][1].humanized_text =
                      (IF OwnCall(j).raised THEN None ELSE Some(OwnCall(j).value))
    /\ pc = "done" =>
           \A j \in NonEmptyUnits :
               TextOfRuns(saved[1].paragraphs[j].runs, 1) =
                   (IF OwnCall(j).raised THEN TextOfRuns(file[j].runs, 1)
                    ELSE OwnCall(j).value)

\* a failure collected first, a success collected last, both saved
C2_Witness ==
    /\ pc = "done"
    /\ N = 3
    /\ CollectOrder[1] \in Failures
    /\ CollectOrder[1] > CollectOrder[3]
    /\ CollectOrder[3] \in Succeeded
    /\ OwnCall(CollectOrder[3]).value # <<>>

\* ---------------------------------------------------------------------- C3
\* C3 (a Failure never mutates its unit): from the apply loop's visit on, a
\* unit with a Failure outcome has the runs and the paragraph format it was
\* loaded with, in memory and in the saved file, and a warning with its index
\* and its error reason was printed.
C3_FailureKeepsUnit ==
    \A i \in Failures :
        /\ AfterPool => doc[i] = file[i]
        /\ (pc \in {"tables", "done"} \/ (pc = "apply" /\ applyIdx > i)) =>
               Printed(<<"Warning: Keeping original text for paragraph", i,
                         results[i][1].error[1]>>)
        /\ pc = "done" => saved[1].paragraphs[i] = file[i]

\* a failed two-run unit after the apply loop, next to a rewritten one
C3_Witness ==
    /\ pc = "done"
    /\ \E i \in Failures : Len(file[i].runs) = 2
    /\ Succeeded # {}

\* ---------------------------------------------------------------------- C4
\* the document the per-index outcomes determine
DocOfOutcomes ==
    [i \in ParaIdx |->
        IF futures[i] # None /\ futures[i][1][2].success
        THEN ApplyOutcome(file[i], futures[i][1][2], preserve_formatting)
        ELSE file[i]]

\* C4 (order preservation): the apply loop mutates units in strictly
\* ascending paragraph index, and after it the document is the one the
\* per-index outcomes determine, whatever the order of collection was.
C4_OrderPreservation ==
    /\ \A m, n \in 1 .. Len(mutated) : m < n => mutated[m] < mutated[n]
    /\ pc \in {"tables", "done"} => doc = DocOfOutcomes

\* two successes collected in descending index order and applied
C4_Witness ==
    /\ pc = "tables"
    /\ Len(mutated) >= 2
    /\ Len(CollectOrder) >= 2
    /\ CollectOrder[1] > CollectOrder[2]
    /\ {CollectOrder[1], CollectOrder[2]} \subseteq Succeeded

\* ---------------------------------------------------------------------- C5
Loaded == pc \notin {"validate", "load", "failed"}

\* C5 (idempotent skip): a paragraph whose text is empty or whitespace-only
\* is never collected for the pool, queued, run or passed to the rewrite
\* call, has no future and no entry in results, and is unchanged in memory
\* and in the saved file; a whitespace-only paragraph of a table cell is
\* never passed to the rewrite call and is unchanged as well.
C5_IdempotentSkip ==
    /\ \A i \in ParaIdx \ NonEmptyUnits :
           /\ \A n \in 1 .. Len(paragraphs_to_process) : paragraphs_to_process[n] # i
           /\ \A n \in 1 .. Len(queue) : queue[n] # i
           /\ i \notin running
           /\ calls[i] = 0
           /\ original_text[i] = None
           /\ futures[i] = None
           /\ results[i] = None
           /\ Loaded => doc[i] = file[i]
           /\ pc = "done" => saved[1].paragraphs[i] = file[i]
    /\ \A k \in CellIdx :
           WhitespaceOnly(TextOfRuns(fileCells[k].runs, 1)) =>
               /\ ~(cellBusy /\ cellIdx = k)
               /\ Loaded => cells[k] = fileCells[k]
               /\ pc = "done" => saved[1].cells[k] = fileCells[k]

\* a saved document with an empty paragraph, a whitespace-only paragraph, a
\* whitespace-only cell and a rewritten paragraph
C5_Witness ==
    /\ pc = "done"
    /\ \E i \in ParaIdx : file[i].runs = <<>>
    /\ \E i \in ParaIdx : file[i].runs # <<>> /\ i \notin NonEmptyUnits
    /\ \E k \in CellIdx : WhitespaceOnly(TextOfRuns(fileCells[k].runs, 1))
    /\ mutated # <<>>

\* ---------------------------------------------------------------------- C6
\* C6 (bounded parallelism): at most max_workers rewrite calls of the pool
\* are in flight at the same time.
C6_BoundedParallelism == Cardinality(running) <= max_workers

\* all three tasks submitted, two workers, both busy, one task waiting
C6_Witness ==
    /\ PoolPhase
    /\ N = 3
    /\ submitted = 3
    /\ max_workers = 2
    /\ Cardinality(running) = 2
    /\ Len(queue) = 1

\* ---------------------------------------------------------------------- C7
\* C7 (no fail-fast): when a unit has been applied, the table pass runs or
\* the document is saved, no task is queued or running: every non-empty unit
\* was submitted, has finished and its outcome was collected.
C7_NoFailFast ==
    (AfterPool \/ mutated # <<>> \/ success_count > 0 \/ saved # None) =>
        /\ queue = <<>>
        /\ running = {}
        /\ submitted = N
        /\ collected = NonEmptyUnits
        /\ \A i \in NonEmptyUnits : futures[i] # None /\ results[i] # None

\* the first outcome collected was a Failure and two more were collected
\* after it
C7_Witness ==
    /\ pc = "apply"
    /\ applyIdx = 0
    /\ completed = 3
    /\ CollectOrder[1] \in Failures
    /\ Cardinality(Failures) = 1

\* ---------------------------------------------------------------------- C8
\* the run with one worker: the tasks run one after the other in submission
\* order, then the apply loop and the table pass
SeqResults ==
    [i \in ParaIdx |->
        IF i \in NonEmptyUnits
        THEN Some(process_paragraph_threaded(i, TextOfRuns(file[i].runs, 1), file[i],
                                             backend[i], preserve_formatting)[2])
        ELSE None]

SeqDoc ==
    [i \in ParaIdx |->
        IF SeqResults[i] # None /\ SeqResults[i][1].success
        THEN ApplyOutcome(file[i], SeqResults[i][1], preserve_formatting)
        ELSE file[i]]

SeqCells ==
    [k \in DOMAIN fileCells |->
        LET t == TextOfRuns(fileCells[k].runs, 1)
            r == humanize_with_ollama(t, cellBackend[k])
        IN  IF WhitespaceOnly(t) \/ r.raised THEN fileCells[k]
            ELSE SetParaText(fileCells[k], r.value)]

SeqCount == Cardinality({i \in ParaIdx : SeqResults[i] # None /\ SeqResults[i][1].success})

\* C8 (pool-size independence): with a deterministic backend, the outcome
\* per index, the saved document and the success count of a run do not
\* depend on max_workers: they are those of the run with one worker.
C8_PoolSizeIndependence ==
    pc = "done" =>
        /\ results = SeqResults
        /\ saved = Some([paragraphs |-> SeqDoc, cells |-> SeqCells])
        /\ success_count = SeqCount

\* a finished run with three workers whose outcomes came in against the
\* submission order, which one worker cannot produce
C8_Witness ==
    /\ pc = "done"
    /\ max_workers = 3
    /\ N = 3
    /\ CollectOrder = <<2, 1, 0>>
    /\ Failures # {}
    /\ Len(mutated) = 2

\* ---------------------------------------------------------------------- C9
\* C9 (mutation only in the Applied phase): while a task is queued or
\* running, and in the whole extraction and pool phase, the document is as
\* loaded; a finished future holds the tuple of its own index; and a step
\* of a worker changes neither the document nor the results map.
C9_MutationOnlyWhenApplied ==
    /\ [](/\ (pc \in {"extract", "submit", "collect"} \/ queue # <<>> \/ running # {}) =>
                 doc = file /\ cells = fileCells /\ mutated = <<>>
          /\ \A i \in ParaIdx : futures[i] # None => futures[i][1][1] = i)
    /\ [][(running' # running \/ futures' # futures) =>
              /\ doc' = doc
              /\ cells' = cells
              /\ results' = results
              /\ \A j \in ParaIdx : futures'[j] # futures[j] => j \in running]_vars

\* a worker has finished a successful call while another is still running
C9_Witness ==
    /\ pc = "collect"
    /\ running # {}
    /\ \E i \in ParaIdx : futures[i] # None /\ futures[i][1][2].success
    /\ doc = file

\* --------------------------------------------------------------------- C10
\* the scenario of the spec: units 0 and 2 non-empty, every other unit
\* empty, the call for index 2 failing and the call for index 0 succeeding
Scenario ==
    /\ NonEmptyUnits = {0, 2}
    /\ file[1].runs = <<>>
    /\ ~OwnCall(0).raised
    /\ OwnCall(2).raised

\* C10 (reported counts): the final report names as success count the
\* number of units with a Success outcome, all of them applied, and as total
\* the number of non-empty units; in the scenario unit 0 is rewritten, unit
\* 1 untouched, unit 2 keeps its original text and the report is 1/2.
C10_ReportedCounts ==
    pc = "done" =>
        /\ out[Len(out)] = <<"Done", Cardinality(Succeeded), N>>
        /\ Range(mutated) = Succeeded
        /\ Len(mutated) = Cardinality(Succeeded)
        /\ Scenario =>
               /\ out[Len(out)] = <<"Done", 1, 2>>
               /\ TextOfRuns(saved[1].paragraphs[0].runs, 1) = OwnCall(0).value
               /\ saved[1].paragraphs[1] = file[1]
               /\ saved[1].paragraphs[2] = file[2]

\* the scenario, saved, with a rewritten text for unit 0
C10_Witness ==
    /\ pc = "done"
    /\ Scenario
    /\ OwnCall(0).value # <<>>
    /\ saved[1].paragraphs[0] # file[0]

\* --------------------------------------------------------------------- C11
NonEmptyCells ==
    {k \in DOMAIN fileCells : ~WhitespaceOnly(TextOfRuns(fileCells[k].runs, 1))}

\* the backend answers HTTP 500 to every request of the run
AlwaysHttp500 ==
    /\ \A i \in NonEmptyUnits : backend[i].transport = "ok" /\ backend[i].status = 500
    /\ \A k \in NonEmptyCells :
           cellBackend[k].transport = "ok" /\ cellBackend[k].status = 500

\* C11 (backend always HTTP 500): every submitted unit gets a Failure
\* outcome whose reason is the backend error with status 500, nothing is
\* applied, the success count is 0, and the saved document has the
\* paragraphs and the table cells of the input.
C11_AlwaysHttp500 ==
    AlwaysHttp500 =>
        /\ AfterPool =>
               \A i \in NonEmptyUnits :
                   /\ results[i] # None
                   /\ ~results[i][1].success
                   /\ results[i][1].error[1].status = 500
                   /\ results[i][1].error[1].msg =
                          "Error calling Ollama: Ollama API returned status code"
        /\ mutated = <<>>
        /\ success_count = 0
        /\ Loaded => doc = file /\ cells = fileCells
        /\ pc = "done" =>
               /\ saved = Some([paragraphs |-> file, cells |-> fileCells])
               /\ out[Len(out)] = <<"Done", 0, N>>

\* a saved run of three units and a non-empty cell, all answered with 500
C11_Witness ==
    /\ AlwaysHttp500
    /\ pc = "done"
    /\ N = 3
    /\ NonEmptyCells # {}

\* --------------------------------------------------------------------- C12
\* C12 (malformed response): a unit whose call got status 200 with a body
\* that lacks the expected field has a Failure outcome.
C12_MalformedResponseFails ==
    \A j \in NonEmptyUnits :
        (/\ results[j] # None
         /\ backend[j].transport = "ok"
         /\ backend[j].status = 200
         /\ ~backend[j].field) => ~results[j][1].success

\* --------------------------------------------------------------------- C13
BackendErrorMsg == "Error calling Ollama: Ollama API returned status code"

\* the call failed with the backend error that carries the status code and
\* the body of the response
FailedWithBackendError ==
    /\ ret[1].raised
    /\ ret[1].error[1] = Reason(BackendErrorMsg, call.resp.status, call.resp.body)

\* connection failure, timeout and backend error have a reason of their own
DistinctKinds ==
    /\ call.resp.transport = "refused" =>
           ret[1].raised /\ ret[1].error[1].msg = "Could not connect to Ollama"
    /\ call.resp.transport = "timeout" =>
           ret[1].raised /\ ret[1].error[1].msg = "Request to Ollama timed out"
    /\ FailedWithBackendError =>
           ret[1].error[1].msg \notin {"Could not connect to Ollama",
                                       "Request to Ollama timed out"}

\* C13 as stated: the call fails with the backend error if and only if the
\* response status is outside 2xx.
C13_BackendErrorIffNon2xx ==
    ret # None =>
        /\ DistinctKinds
        /\ call.resp.transport = "ok" =>
               (FailedWithBackendError <=>
                    ~(call.resp.status >= 200 /\ call.resp.status < 300))

\* C13 (amended): connection failure, timeout and backend error each have a
\* different reason, and the call fails with the backend error carrying
\* the status code and the response body if and only if a response arrived
\* whose status is not 200.
C13_BackendErrorIffNot200 ==
    ret # None =>
        /\ DistinctKinds
        /\ FailedWithBackendError <=>
               (call.resp.transport = "ok" /\ call.resp.status # 200)

\* a call answered with status 204 has failed with the backend error
C13_Witness ==
    /\ ret # None
    /\ call.resp.transport = "ok"
    /\ call.resp.status = 204
    /\ FailedWithBackendError

\* --------------------------------------------------------------------- C14
\* number of rewrite calls in flight
InFlight == Cardinality(running) + (IF cellBusy THEN 1 ELSE 0)

\* what the rewrite call of cell k returns or raises
OwnCellCall(k) == humanize_with_ollama(TextOfRuns(fileCells[k].runs, 1), cellBackend[k])

\* C14 (table pass): the table pass runs when the pool has drained and the
\* apply loop has visited every paragraph; during it at most one rewrite
\* call is in flight; a cell paragraph whose call raises keeps its text, and
\* every cell, those after a failing one included, ends with the text of its
\* own call.
C14_TablePass ==
    /\ (cellBusy \/ cellIdx > 0) =>
           /\ pc \in {"tables", "done"}
           /\ applyIdx = NumParas
           /\ queue = <<>> /\ running = {}
           /\ doc = DocOfOutcomes
    /\ pc = "tables" => InFlight <= 1
    /\ pc \in {"tables", "done"} =>
           \A k \in DOMAIN fileCells :
               k < cellIdx =>
                   cells[k] = (IF k \in NonEmptyCells /\ ~OwnCellCall(k).raised
                               THEN SetParaText(fileCells[k], OwnCellCall(k).value)
                               ELSE fileCells[k])
    /\ pc = "done" => cellIdx = CellCount /\ saved[1].cells = cells

\* three cells: the call of the first raised, the last cell was rewritten
C14_Witness ==
    /\ pc = "done"
    /\ CellCount = 3
    /\ 0 \in NonEmptyCells
    /\ OwnCellCall(0).raised
    /\ saved[1].cells[0] = fileCells[0]
    /\ saved[1].cells[2] # fileCells[2]

\* ---------------------------------------------------------------- C15
\* the files of a list whose pipeline run succeeds, as output paths, in order
RECURSIVE OutputsOf(_)
OutputsOf(fs) ==
    IF fs = <<>> THEN <<>>
    ELSE (IF PipelineEndOf(Head(fs)) = "ok"
          THEN <<OutputPath(JoinPath(Head(fs)))>> ELSE <<>>) \o OutputsOf(Tail(fs))

\* the files the loop has been through
Visited == SubSeq(files, 1, fileIdx)

\* C15: batch isolation. While and after batch_process_threaded loops over
\* the discovered files, the pipeline has been invoked exactly once for each
\* file the loop has been through, in list order; each of them whose pipeline
\* run failed (not found, invalid format, save error) has its error logged;
\* the list of outputs holds exactly the output paths of those that
\* succeeded, in input order; and the function returns only after the loop
\* has been through every file.
C15_BatchIsolation ==
    batchPc \in {"loop", "returned"} =>
        /\ invoked[batchRun] = Visited
        /\ output_files = OutputsOf(Visited)
        /\ \A m \in 1 .. fileIdx :
               PipelineEndOf(files[m]) # "ok" =>
                   \E n \in DOMAIN out :
                       out[n] = <<"Error processing", JoinPath(files[m]),
                                  PipelineEndOf(files[m])>>
        /\ batchPc = "returned" => fileIdx = Len(files)

\* a batch that returned after a failing file followed by a succeeding one
C15_Witness ==
    /\ batchPc = "returned"
    /\ Len(files) >= 2
    /\ \E m, n \in DOMAIN files :
           /\ m < n
           /\ PipelineEndOf(files[m]) # "ok"
           /\ PipelineEndOf(files[n]) = "ok"
    /\ Len(output_files) >= 1
    /\ C15_BatchIsolation

\* ---------------------------------------------------------------- C19
\* the name carries the _edited suffix, whatever the case of its extension
CarriesEdited(f) == f.name # <<>> /\ f.name[Len(f.name)] = "_edited"

\* the name ends with '_edited.docx' as the pipeline writes it
CarriesEditedDocx(f) == CarriesEdited(f) /\ f.ext = ".docx"

\* the files the pipeline has been invoked on, over every batch run
Submitted == UNION {Range(invoked[r]) : r \in DOMAIN invoked}

\* what the layout claims share: every path written is
\* <original-name>_edited<ext> in the directory of an input whose run
\* succeeded; a batch that returned has one output per input that succeeded,
\* all different; no input is an earlier output; and a second batch run over
\* the same directory lists the same set of inputs as the first
LayoutCommon ==
    /\ \A p \in written :
           \E f \in Submitted :
               /\ PipelineEndOf(f) = "ok"
               /\ p = [dir |-> "docs", name |-> f.name \o <<"_edited">>, ext |-> f.ext]
    /\ \A f \in Submitted : [dir |-> "docs", name |-> f.name, ext |-> f.ext] \notin written
    /\ batchPc = "returned" =>
           /\ Len(output_files) =
                  Cardinality({n \in DOMAIN files : PipelineEndOf(files[n]) = "ok"})
           /\ \A m, n \in DOMAIN output_files :
                  m # n => output_files[m] # output_files[n]
           /\ Range(output_files) \subseteq written
    /\ batchRun = 2 /\ batchPc \in {"loop", "returned"} =>
           Range(files) = Range(invoked[1])

\* C19 (as stated): output layout. A run writes <original-name>_edited<ext>
\* next to the input; batch mode never submits a file whose name carries the
\* _edited suffix and yields one output per processed input, so that a second
\* batch run processes the same set of inputs and never an earlier output.
C19_OutputLayout ==
    /\ LayoutCommon
    /\ \A f \in Submitted : ~CarriesEdited(f)

\* C19 (amended): as above, the files batch mode never submits being those
\* whose name ends with '_edited.docx' exactly.
C19_OutputLayoutDocx ==
    /\ LayoutCommon
    /\ \A f \in Submitted : ~CarriesEditedDocx(f)

\* a second batch run has returned over a directory that holds an output of
\* the first one and an older _edited.docx file
C19_Witness ==
    /\ batchRun = 2
    /\ batchPc = "returned"
    /\ written # {}
    /\ Len(files) = 2
    /\ \E f \in directory : CarriesEditedDocx(f) /\ JoinPath(f) \in written
    /\ \E f \in directory : CarriesEditedDocx(f) /\ JoinPath(f) \notin written
    /\ C19_OutputLayoutDocx

\* ---------------------------------------------------------------- C16
\* the document the outcomes determine, tables included
CellsOfOutcomes ==
    [k \in DOMAIN fileCells |->
        IF k \in NonEmptyCells /\ ~OwnCellCall(k).raised
        THEN SetParaText(fileCells[k], OwnCellCall(k).value)
        ELSE fileCells[k]]

PhaseOf(p) ==
    CASE p \in {"validate", "load"} -> 1
      [] p = "extract" -> 2
      [] p \in {"submit", "collect"} -> 3
      [] p \in {"apply", "tables"} -> 4
      [] p = "done" -> 5
      [] OTHER -> 0

\* the order of the positions inside the phases
PositionOf(p) ==
    CASE p = "validate" -> 1
      [] p = "load" -> 2
      [] p = "extract" -> 3
      [] p = "submit" -> 4
      [] p = "collect" -> 5
      [] p = "apply" -> 6
      [] p = "tables" -> 7
      [] p = "done" -> 8
      [] OTHER -> 0

\* C17: the pipeline of one document goes through Loaded, UnitsExtracted,
\* Scheduled, Applied, Persisted in that order: a step stays in its phase or
\* enters the next one, without going back inside a phase either; the only
\* other steps leave for a termination by error or interrupt, nothing leaves
\* Persisted or a termination, and main() exits only from Persisted or from
\* such a termination, an error termination coming from the Loaded phase with
\* nothing saved.
C17_LinearPhases ==
    /\ [](/\ exit_code # None => pc \in {"done", "failed", "interrupted"}
          /\ pc = "done" => saved # None
          /\ pc = "failed" =>
                 /\ error \in {Some("FileNotFoundError"), Some("ValueError"),
                               Some("PackageNotFoundError")}
                 /\ saved = None /\ doc = NotLoaded)
    /\ [][\/ pc' = pc
          \/ /\ PhaseOf(pc) # 0
             /\ PhaseOf(pc') \in {PhaseOf(pc), PhaseOf(pc) + 1}
             /\ PositionOf(pc') = PositionOf(pc) + 1
          \/ /\ PhaseOf(pc) \in 1 .. 4
             /\ pc' \in {"failed", "interrupted"}
             /\ pc' = "failed" => PhaseOf(pc) = 1]_vars

\* main() has exited with code 0 after a run that went through every phase
\* with units to rewrite and a table cell
C17_Witness ==
    /\ pc = "done"
    /\ exit_code = Some(0)
    /\ saved # None
    /\ total_paragraphs >= 2
    /\ completed = total_paragraphs
    /\ applyIdx = NumParas
    /\ cellIdx = CellCount /\ CellCount >= 1

\* ---------------------------------------------------------------- C18
\* C18: document-level validation. With an input path that does not exist
\* the run fails with the not-found error at its first step; with a path that
\* does not end in .docx, or a file that is not a readable container, it
\* fails with an invalid-format error (ValueError, or the package error of
\* Document()) before the document is loaded. In all three cases no rewrite
\* call is ever submitted, started or made, and nothing is saved.
C18_DocumentValidation ==
    /\ inputKind = "missing" /\ pc # "validate" =>
           pc = "failed" /\ error = Some("FileNotFoundError")
    /\ inputKind = "notdocx" /\ pc # "validate" =>
           pc = "failed" /\ error = Some("ValueError")
    /\ inputKind = "corrupt" /\ pc \notin {"validate", "load"} =>
           pc = "failed" /\ error = Some("PackageNotFoundError")
    /\ inputKind # "ok" =>
           /\ \A i \in ParaIdx : calls[i] = 0 /\ futures[i] = None
           /\ submitted = 0 /\ queue = <<>> /\ running = {}
           /\ ~cellBusy /\ cellIdx = 0
           /\ doc = NotLoaded
           /\ saved = None

\* the run of an unreadable container has failed at the load
C18_Witness ==
    /\ inputKind = "corrupt"
    /\ pc = "failed"
    /\ error = Some("PackageNotFoundError")
    /\ out = <<<<"Reading document">>>>
    /\ saved = None

\* ---------------------------------------------------------------- C20
\* the units the apply loop has rewritten
Applied ==
    {i \in ParaIdx : /\ pc \in {"apply", "tables", "done"}
                     /\ i < applyIdx
                     /\ results[i] # None
                     /\ results[i][1].success}

\* C20: formatting round-trip. With preserve_formatting on, a unit the apply
\* loop has rewritten carries the rewritten text, and the style attributes
\* captured for it are those of the unit as loaded and are still in place:
\* the run format of its first run and its paragraph format equal the
\* captured values, and the runs after the first keep their format.
C20_FormattingRoundTrip ==
    preserve_formatting =>
        \A i \in Applied :
            LET o == results[i][1]
                fd == o.formatting_data[1]
            IN  /\ o.formatting_data # None
                /\ Len(fd.run_formats) = Len(file[i].runs)
                /\ \A n \in DOMAIN file[i].runs : fd.run_formats[n] = file[i].runs[n].fmt
                /\ fd.paragraph_format = file[i].pfmt
                /\ TextOfRuns(doc[i].runs, 1) = o.humanized_text[1]
                /\ doc[i].pfmt = fd.paragraph_format
                /\ Len(doc[i].runs) = Len(file[i].runs)
                /\ \A n \in DOMAIN doc[i].runs : doc[i].runs[n].fmt = fd.run_formats[n]

\* a bold, centred unit and a two-run justified unit have both been rewritten
\* with formatting preserved
C20_Witness ==
    /\ preserve_formatting
    /\ pc = "done"
    /\ \E i, j \in Applied :
           /\ file[i] = OneRunPara /\ file[j] = TwoRunPara
           /\ doc[i] # file[i] /\ doc[j] # file[j]
           /\ doc[i].runs[1].fmt = "bold" /\ doc[i].pfmt = "center"
           /\ doc[j].runs[2].fmt = "italic" /\ doc[j].pfmt = "justify"

\* ---------------------------------------------------------------- C21
\* the texts of the JSON chunks among the first n lines, in order
RECURSIVE ChunksUpTo(_)
ChunksUpTo(n) ==
    IF n = 0 THEN <<>>
    ELSE ChunksUpTo(n - 1) \o
             (IF lines[n].kind = "chunk" THEN <<lines[n].text>> ELSE <<>>)

RECURSIVE NonEmptyOf(_)
NonEmptyOf(ts) ==
    IF ts = <<>> THEN <<>>
    ELSE (IF Head(ts) # <<>> THEN <<Head(ts)>> ELSE <<>>) \o NonEmptyOf(Tail(ts))

RECURSIVE Flatten(_)
Flatten(ts) == IF ts = <<>> THEN <<>> ELSE Head(ts) \o Flatten(Tail(ts))

\* every line is a chunk and the last one, and only it, carries done
WellFormedStream ==
    /\ lines # <<>>
    /\ \A n \in DOMAIN lines :
           lines[n].kind = "chunk" /\ (lines[n].done <=> n = Len(lines))

\* C21: streaming. The callback has been called once for each non-empty
\* chunk among the lines the loop has taken, in their order of delivery, and
\* never without a callback; the loop takes the lines one by one up to the
\* first chunk that carries done; the text returned is the concatenation of
\* the chunks passed to the callback, stripped; and for a well-formed stream
\* it is the stripped concatenation of all the chunks, which is what the
\* call without streaming returns for that content.
C21_Streaming ==
    /\ received = (IF callback THEN NonEmptyOf(ChunksUpTo(linePos)) ELSE <<>>)
    /\ \A n \in 1 .. (linePos - 1) : ~(lines[n].kind = "chunk" /\ lines[n].done)
    /\ streamPc = "returned" =>
           /\ streamRet = Some(Returned(Strip(Flatten(ChunksUpTo(linePos)))))
           /\ callback => streamRet[1].value = Strip(Flatten(received))
           /\ \/ linePos = Len(lines)
              \/ lines[linePos].kind = "chunk" /\ lines[linePos].done
           /\ WellFormedStream =>
                  streamRet[1].value = Strip(Flatten(ChunksUpTo(Len(lines))))

\* a well-formed stream of three chunks, one of them empty, has been returned
\* to a caller with a callback, the strip taking something away
C21_Witness ==
    /\ streamPc = "returned"
    /\ callback
    /\ WellFormedStream
    /\ Len(lines) = 3
    /\ Len(received) = 2
    /\ streamRet[1].value # <<>>
    /\ streamRet[1].value # Flatten(received)

\* ---------------------------------------------------------------- C22
\* the failure of paragraph i has been reported by the collecting loop
ParagraphFailureReported(i) ==
    \E n \in DOMAIN out :
        /\ out[n][1] = "Failed"
        /\ out[n][4] = i
        /\ out[n][5] = OwnCall(i).error[1]

\* the failure of cell paragraph k has been reported with its index
CellFailureReported(k) ==
    \E n \in DOMAIN out :
        /\ out[n][1] = "Warning: Could not process table cell"
        /\ Len(out[n]) = 3
        /\ out[n][2] = k
        /\ out[n][3] = OwnCellCall(k).error[1]

\* C22: every per-unit failure is reported with the index of its unit and
\* its reason: that of a paragraph once its outcome is collected, that of a
\* table cell paragraph once the table pass has gone past it.
C22_FailuresAttributed ==
    /\ \A i \in ParaIdx :
           results[i] # None /\ ~results[i][1].success => ParagraphFailureReported(i)
    /\ pc \in {"tables", "done"} =>
           \A k \in DOMAIN fileCells :
               k < cellIdx /\ k \in NonEmptyCells /\ OwnCellCall(k).raised =>
                   CellFailureReported(k)

\* ---------------------------------------------------------------- C23
\* C23: exactly-once dispatch. At every moment of a run the rewrite call has
\* been started at most once for each paragraph, only for non-empty ones and
\* with the paragraph's text as loaded; a task is waiting, running or
\* finished, never two of these; a finished task carries its own index; the
\* outcome recorded under i is that of the call made for i; and once the pool
\* is done every submitted paragraph has had exactly one call.
C23_ExactlyOnceDispatch ==
    /\ \A i \in ParaIdx :
           /\ calls[i] <= 1
           /\ calls[i] = 1 =>
                  /\ i \in NonEmptyUnits
                  /\ original_text[i] = Some(TextOfRuns(file[i].runs, 1))
           /\ calls[i] = 0 => i \notin running /\ futures[i] = None
           /\ i \in Range(queue) => calls[i] = 0
           /\ i \in running => futures[i] = None
           /\ futures[i] # None => futures[i][1][1] = i
           /\ results[i] # None =>
                  /\ calls[i] = 1
                  /\ results[i][1].success = ~OwnCall(i).raised
                  /\ results[i][1].error = OwnCall(i).error
                  /\ results[i][1].success =>
                         results[i][1].humanized_text = Some(OwnCall(i).value)
    /\ \A m, n \in DOMAIN queue : m # n => queue[m] # queue[n]
    /\ AfterPool => \A i \in NonEmptyUnits : calls[i] = 1 /\ results[i] # None

\* a run with several workers is over, a failed call and a successful one
\* each made once
C23_Witness ==
    /\ pc = "done"
    /\ max_workers >= 2
    /\ \E i, j \in NonEmptyUnits :
           /\ calls[i] = 1 /\ calls[j] = 1
           /\ OwnCall(i).raised /\ ~results[i][1].success
           /\ ~OwnCall(j).raised /\ results[j][1].success

\* ---------------------------------------------------------------- C24
\* the style attributes of unit i as loaded
SnapshotOf(i) ==
    [run_formats |-> [n \in DOMAIN file[i].runs |-> file[i].runs[n].fmt],
     paragraph_format |-> file[i].pfmt]

\* the first run format and the paragraph format of a paragraph
StyleOf(p) ==
    [first |-> IF p.runs = <<>> THEN None ELSE Some(p.runs[1].fmt), pfmt |-> p.pfmt]

\* C24: a formatting snapshot is captured by the worker of unit i while
\* unit i is still as loaded, and it holds the attributes of unit i; once
\* captured it never changes, in the future that carries it or in results;
\* the apply loop changes a unit at most once, and when it changes unit i
\* with formatting preserved the style it leaves on unit i is that of the
\* snapshot captured from unit i.
C24_SnapshotDiscipline ==
    /\ [](/\ \A i \in ParaIdx :
                 /\ futures[i] # None /\ futures[i][1][2].formatting_data # None =>
                        futures[i][1][2].formatting_data = Some(SnapshotOf(i))
                 /\ results[i] # None => results[i][1] = futures[i][1][2]
          /\ \A m, n \in DOMAIN mutated : m # n => mutated[m] # mutated[n])
    /\ [][\A i \in ParaIdx :
              /\ futures'[i] # futures[i] =>
                     /\ futures[i] = None
                     /\ doc[i] = file[i]
                     /\ i \notin Range(mutated)
              /\ results[i] # None => results'[i] = results[i]
              /\ doc # NotLoaded /\ doc'[i] # doc[i] =>
                     /\ results[i] # None /\ results[i][1].success
                     /\ i \notin Range(mutated)
                     /\ mutated' = Append(mutated, i)
                     /\ \A j \in ParaIdx \ {i} : doc'[j] = doc[j]
                     /\ preserve_formatting =>
                            /\ results[i][1].formatting_data = Some(SnapshotOf(i))
                            /\ StyleOf(doc'[i]) = StyleOf(file[i])]_vars

\* two units with different styles have been rewritten with formatting
\* preserved, each from its own snapshot
C24_Witness ==
    /\ pc = "done"
    /\ preserve_formatting
    /\ Len(mutated) >= 2
    /\ \E i, j \in Range(mutated) :
           /\ SnapshotOf(i) # SnapshotOf(j)
           /\ results[i][1].formatting_data = Some(SnapshotOf(i))
           /\ results[j][1].formatting_data = Some(SnapshotOf(j))
           /\ StyleOf(doc[i]) = StyleOf(file[i])
           /\ StyleOf(doc[j]) = StyleOf(file[j])
           /\ doc[i] # file[i] /\ doc[j] # file[j]

\* ---------------------------------------------------------------- C25
\* the text of a paragraph as paragraph.text reads it: its runs, then its
\* hyperlinks
FullText(p) == TextOfRuns(p.runs, 1) \o p.links

\* C25: applying a Success outcome with a snapshot. A unit the apply loop
\* has rewritten with formatting preserved has the rewritten text in its
\* first run, styled as the first captured run when there was one; its other
\* runs have empty text; it has as many runs as before, or one when it had
\* none; and its text is the rewritten text exactly.
C25_ApplyWithSnapshot ==
    preserve_formatting =>
        \A i \in Applied :
            LET text == results[i][1].humanized_text[1]
            IN  /\ Len(doc[i].runs) =
                       (IF file[i].runs = <<>> THEN 1 ELSE Len(file[i].runs))
                /\ doc[i].runs[1].text = text
                /\ file[i].runs # <<>> => doc[i].runs[1].fmt = file[i].runs[1].fmt
                /\ \A n \in 2 .. Len(doc[i].runs) : doc[i].runs[n].text = <<>>
                /\ FullText(doc[i]) = text

\* ---------------------------------------------------------------- C26
\* C26: with preserve_formatting off no outcome ever carries formatting
\* data, in the futures or in results, and a unit the apply loop has
\* rewritten holds the rewritten text in one unstyled run, its paragraph
\* attributes being those it was loaded with.
C26_NoSnapshotWhenDisabled ==
    ~preserve_formatting =>
        /\ \A i \in ParaIdx :
               /\ futures[i] # None => futures[i][1][2].formatting_data = None
               /\ results[i] # None => results[i][1].formatting_data = None
        /\ \A i \in Applied :
               /\ doc[i].runs =
                      <<[text |-> results[i][1].humanized_text[1], fmt |-> DefaultRunFmt]>>
               /\ doc[i].pfmt = file[i].pfmt

\* with preserve_formatting off a two-run unit has been rewritten into one
\* unstyled run and a bold unit has lost its style
C26_Witness ==
    /\ ~preserve_formatting
    /\ pc = "done"
    /\ \E i, j \in Applied :
           /\ file[i] = TwoRunPara /\ Len(doc[i].runs) = 1 /\ doc[i].pfmt = "justify"
           /\ file[j] = OneRunPara /\ doc[j].runs[1].fmt = DefaultRunFmt

\* ---------------------------------------------------------------- C27
\* the counter values the progress lines among the first n lines report
RECURSIVE ProgressValues(_)
ProgressValues(n) ==
    IF n = 0 THEN <<>>
    ELSE ProgressValues(n - 1) \o
             (IF out[n][1] \in {"Processed", "Failed"} THEN <<out[n][2]>> ELSE <<>>)

\* C27: progress counting. The completion counter is the number of outcomes
\* collected so far and a step changes it only by adding one as it collects
\* one more outcome; the progress lines report 1, 2, ... up to the counter,
\* in that order, whatever the order in which the workers finished; the
\* counter is N once the pool is done; and what is recorded under an index
\* is the outcome its worker returned, the counter playing no part.
C27_ProgressCounting ==
    /\ [](/\ completed = Cardinality(collected)
          /\ ProgressValues(Len(out)) = [n \in 1 .. completed |-> n]
          /\ AfterPool => completed = N /\ completed = total_paragraphs
          /\ \A i \in ParaIdx :
                 results[i] # None => i \in collected /\ results[i][1] = futures[i][1][2])
    /\ [][completed' # completed =>
              /\ completed' = completed + 1
              /\ \E f \in ParaIdx \ collected : collected' = collected \cup {f}]_vars

\* three outcomes were collected in an order that is not the index order, a
\* failure among them, and the counter reached N
C27_Witness ==
    /\ pc = "done"
    /\ N = 3
    /\ completed = 3
    /\ CollectOrder # <<0, 1, 2>>
    /\ Failures # {}
    /\ ProgressValues(Len(out)) = <<1, 2, 3>>

\* ---------------------------------------------------------------- C28
\* C28: termination. Under Fairness, whatever the pool size, the number of
\* units and the mix of successes and failures, a run that has entered the
\* pool block leaves it with an outcome recorded for every submitted unit,
\* and the run of a readable document ends with the document saved.
C28_Termination ==
    /\ (pc \in {"submit", "collect"}) ~>
           (pc = "apply" /\ \A i \in NonEmptyUnits : results[i] # None)
    /\ (inputKind = "ok") ~> (pc = "done" /\ saved # None)

\* a run of three units on one worker, failures and successes mixed, is over
C28_Witness ==
    /\ pc = "done"
    /\ saved # None
    /\ max_workers = 1
    /\ N = 3
    /\ Failures # {}
    /\ Succeeded # {}

\* ---------------------------------------------------------------- C29
\* a run of the paragraph cannot be read
Unreadable(p) == \E n \in DOMAIN p.runs : p.runs[n].fmt = "broken"

\* C29: the outcome a worker returns for unit i is a Success exactly when
\* its own call returned and, with formatting preserved, its formatting
\* could be captured; a Failure carries neither rewritten text nor snapshot
\* and has a reason, that of the capture when the call had returned; a
\* snapshot comes only with a call that returned; and in the end a unit
\* whose outcome is a Failure is as loaded while every other submitted unit
\* holds the text of its own call.
C29_CaptureFailure ==
    /\ \A i \in ParaIdx :
           futures[i] # None =>
               LET o == futures[i][1][2]
                   captureFails == preserve_formatting /\ Unreadable(file[i])
               IN  /\ o.success = (~OwnCall(i).raised /\ ~captureFails)
                   /\ ~o.success =>
                          /\ o.humanized_text = None
                          /\ o.formatting_data = None
                          /\ o.error # None
                   /\ ~OwnCall(i).raised /\ captureFails =>
                          o.error = Some([msg |-> "AttributeError", status |-> 0,
                                          detail |-> ""])
                   /\ o.formatting_data # None => ~OwnCall(i).raised
    /\ pc = "done" =>
           \A i \in NonEmptyUnits :
               IF results[i][1].success
               THEN TextOfRuns(doc[i].runs, 1) = OwnCall(i).value
               ELSE doc[i] = file[i]

\* with formatting preserved, the call of a unit with an unreadable run
\* returned, the unit was left as loaded and another unit was rewritten
C29_Witness ==
    /\ pc = "done"
    /\ preserve_formatting
    /\ \E i, j \in NonEmptyUnits :
           /\ Unreadable(file[i]) /\ ~OwnCall(i).raised
           /\ ~results[i][1].success
           /\ saved[1].paragraphs[i] = file[i]
           /\ ~Unreadable(file[j]) /\ results[j][1].success
           /\ saved[1].paragraphs[j] # file[j]

====
